---- MODULE Spec2Model ----
(***************************************************************************)
(* The TriX matchmaking and match-lifecycle coordinator                    *)
(* (src/matchmaking-server.js) as a state machine.  Every socket.io        *)
(* handler, the expiry sweep and the eviction timer is one action; the     *)
(* four Maps of the server are kept in insertion order, because the        *)
(* handlers iterate them and stop at the first hit.                        *)
(***************************************************************************)
EXTENDS Integers, Sequences, FiniteSets, TLC

VARIABLES
    playerSessions,     \* Map socketId -> socket: the set of registered socket ids
    waitingPlayers,     \* Map stake -> [players], in insertion order of the keys
    activeMatches,      \* Map matchId -> matchData, in insertion order
    preStakedPlayers,   \* Map address -> {stake, timestamp, socketId, ...}, in insertion order
    now,                \* Date.now(), in milliseconds since the server started
    timers,             \* pending setTimeout callbacks of endGame: {matchId, due}
    sweepDue,           \* the setInterval callback is due at this instant and has not run
    nextSocketId,       \* socket.io gives every connection a fresh id
    nextMatchId,        \* uuidv4() gives every match a fresh id
    outbox,             \* the messages the last handler emitted, in order
    playGame,           \* the storage of the PlayGame contract
    gameToken,          \* the storage of the GameToken contract (ERC-20)
    blockTimestamp,     \* block.timestamp, in seconds
    receipt             \* the outcome of the last transaction sent to PlayGame

\* the state of the coordinator process
serverVars == <<playerSessions, waitingPlayers, activeMatches, preStakedPlayers,
                now, timers, sweepDue, nextSocketId, nextMatchId, outbox>>

\* the state of the chain
chainVars == <<playGame, gameToken, blockTimestamp, receipt>>

vars == <<playerSessions, waitingPlayers, activeMatches, preStakedPlayers,
          now, timers, sweepDue, nextSocketId, nextMatchId, outbox,
          playGame, gameToken, blockTimestamp, receipt>>

----------------------------------------------------------------------------
(* Bounds of the model *)

MaxMatches == 1
MaxAdvances == 2
MaxMoves == 3
MaxRematches == 2
MaxEscrowMatches == 1
MaxBlocks == 1

(* Program constants *)

PRE_STAKE_TIMEOUT == 300000
SWEEP_INTERVAL == 30000
EVICT_DELAY == 60000

(* JavaScript's null and undefined *)
NULL == "null"
UNDEFINED == "undefined"

(* The connections, and the inputs the clients send.  A stake confirmation  *)
(* may write an account in another case than the join-intent did: "0xA" is *)
(* "0xa" under toLowerCase().                                               *)
SocketIds == {1, 2}
Addresses == {"0xa", "0xb"}
Confirmers == {"0xa", "0xA", "0xb"}
Stakes == {10, 20}
Rows == {0}
Cols == {0, 1, 2, 9}
Symbols == {"X", "O", ""}
BlockchainIds == {"bc1"}
MatchIds == 1..(MaxMatches + 1)

----------------------------------------------------------------------------
(* Library functions *)

ToLowerCase(a) == IF a = "0xA" THEN "0xa" ELSE a

\* parseInt of a JavaScript number that is an integer
ParseInt(n) == n

RemoveAt(s, i) == SubSeq(s, 1, i - 1) \o SubSeq(s, i + 1, Len(s))

\* Array.prototype.findIndex, 1-based; 0 stands for -1
FindIndex(s, Test(_)) ==
    IF \E i \in DOMAIN s : Test(s[i])
    THEN CHOOSE i \in DOMAIN s : Test(s[i]) /\ \A j \in 1..(i - 1) : ~Test(s[j])
    ELSE 0

----------------------------------------------------------------------------
(* The Maps *)

WaitingIndex(stake) == FindIndex(waitingPlayers, LAMBDA b : b.stake = stake)
WaitingHas(stake) == WaitingIndex(stake) # 0

PreIndexIn(pre, address) == FindIndex(pre, LAMBDA p : p.address = address)
PreHas(address) == PreIndexIn(preStakedPlayers, address) # 0

MatchIndexIn(matches, matchId) == FindIndex(matches, LAMBDA m : m.matchId = matchId)
MatchGetIn(matches, matchId) ==
    IF MatchIndexIn(matches, matchId) = 0 THEN NULL
    ELSE matches[MatchIndexIn(matches, matchId)]
MatchGet(matchId) == MatchGetIn(activeMatches, matchId)

MatchDelete(matches, matchId) ==
    IF MatchIndexIn(matches, matchId) = 0 THEN matches
    ELSE RemoveAt(matches, MatchIndexIn(matches, matchId))

\* the body of the loops "Remove from waiting queue": the first bucket, in Map
\* order, that holds an entry passing the test loses its first such entry, and
\* is deleted when that empties it
RemoveFirstWaiting(waiting, Test(_)) ==
    LET b == FindIndex(waiting, LAMBDA bucket : FindIndex(bucket.players, Test) # 0)
    IN  IF b = 0 THEN waiting
        ELSE LET players == RemoveAt(waiting[b].players,
                                     FindIndex(waiting[b].players, Test))
             IN  IF Len(players) = 0 THEN RemoveAt(waiting, b)
                 ELSE [waiting EXCEPT ![b].players = players]

Emit(to, event, data) == [to |-> to, event |-> event, data |-> data]

\* socket.emit through playerSessions.get(id): skipped when the id is absent
EmitTo(sessions, to, event, data) ==
    IF to \in sessions THEN <<Emit(to, event, data)>> ELSE <<>>

----------------------------------------------------------------------------
(* Game logic functions *)

\* the lines without the two diagonals
winConditionsStraight ==
    << <<0, 1, 2>>, <<3, 4, 5>>, <<6, 7, 8>>,
       <<0, 3, 6>>, <<1, 4, 7>>, <<2, 5, 8>> >>

winConditions ==
    << <<0, 1, 2>>, <<3, 4, 5>>, <<6, 7, 8>>,
       <<0, 3, 6>>, <<1, 4, 7>>, <<2, 5, 8>>,
       <<0, 4, 8>>, <<2, 4, 6>> >>

\* the win test that looks at the rows only
checkWinRows(board, symbol) ==
    \E c \in 1..3 :
        \A k \in 1..3 : board[winConditions[c][k] + 1] = symbol

\* board is a JavaScript array of 9 cells, index 0..8: cell i is board[i + 1]
checkWin(board, symbol) ==
    \E c \in DOMAIN winConditions :
        \A k \in 1..3 : board[winConditions[c][k] + 1] = symbol

checkDraw(board) == \A i \in DOMAIN board : board[i] # ""

\* the notification that reaches player 1 only
notifyPlayersFirst(sessions, match, event, data) ==
    EmitTo(sessions, match.player1SocketId, event, data)

\* the two emits of notifyPlayers, for a match that is in the table
notifyPlayers(sessions, match, event, data) ==
    EmitTo(sessions, match.player1SocketId, event, data)
        \o EmitTo(sessions, match.player2SocketId, event, data)

\* endGame: what it leaves in the table, what it emits and the timer it sets.
\* winnerAddress is derived from result being 'X' or 'O', whatever the caller
\* passed.
endGame(matches, sessions, matchId, result, reason) ==
    LET i == MatchIndexIn(matches, matchId)
    IN  IF i = 0
        THEN [activeMatches |-> matches, emits |-> <<>>, timers |-> {}]
        ELSE LET match == [matches[i] EXCEPT !.status = "COMPLETED",
                                             !.gameActive = FALSE,
                                             !.result = result,
                                             !.endReason = reason]
                 winnerAddress == IF result = "X" THEN match.player1
                                  ELSE IF result = "O" THEN match.player2
                                  ELSE NULL
             IN  [activeMatches |-> [matches EXCEPT ![i] = match],
                  emits |-> notifyPlayers(sessions, match, "gameEnd",
                                [winner |-> result,
                                 winnerAddress |-> winnerAddress,
                                 reason |-> reason,
                                 finalBoard |-> match.board]),
                  timers |-> {[matchId |-> matchId, due |-> now + EVICT_DELAY]}]

----------------------------------------------------------------------------
(* Matchmaking logic *)

NewMatch(matchId, waitingPlayer, playerData) ==
    [matchId |-> matchId,
     player1 |-> waitingPlayer.address,
     player2 |-> playerData.address,
     stake |-> ParseInt(playerData.stake),
     status |-> "CREATED",
     board |-> [i \in 1..9 |-> ""],
     currentPlayer |-> "X",
     gameActive |-> FALSE,
     player1Staked |-> FALSE,
     player2Staked |-> FALSE,
     blockchainMatchId |-> NULL,
     moves |-> <<>>,
     player1SocketId |-> waitingPlayer.socketId,
     player2SocketId |-> playerData.socketId,
     result |-> UNDEFINED,
     endReason |-> UNDEFINED]

\* the shift that keeps the bucket it has emptied
ShiftWaitingKept(waiting, b) == [waiting EXCEPT ![b].players = Tail(@)]

\* waitingPlayers.get(stake).shift(), and waitingPlayers.delete(stake) when
\* that leaves the bucket empty
ShiftWaiting(waiting, b) ==
    IF Len(Tail(waiting[b].players)) = 0 THEN RemoveAt(waiting, b)
    ELSE [waiting EXCEPT ![b].players = Tail(@)]

\* findMatch(playerData): pairs with the oldest entry of the stake's bucket, or
\* enqueues.  match is NULL when the player was enqueued.
findMatch(playerData) ==
    LET b == WaitingIndex(playerData.stake)
    IN  IF b # 0
        THEN LET waitingPlayer == Head(waitingPlayers[b].players)
                 matchData == NewMatch(nextMatchId, waitingPlayer, playerData)
             IN  [waitingPlayers |-> ShiftWaiting(waitingPlayers, b),
                  activeMatches |-> Append(activeMatches, matchData),
                  paired |-> TRUE,
                  match |-> matchData,
                  emits |-> EmitTo(playerSessions, waitingPlayer.socketId,
                                   "matchFound", matchData)
                            \o EmitTo(playerSessions, playerData.socketId,
                                      "matchFound", matchData)]
        ELSE [waitingPlayers |->
                  Append(waitingPlayers,
                         [stake |-> playerData.stake, players |-> <<playerData>>]),
              activeMatches |-> activeMatches,
              paired |-> FALSE,
              match |-> NULL,
              emits |-> <<>>]

----------------------------------------------------------------------------
(* The contracts: PlayGame (the escrow) and GameToken (its ERC-20 token) *)

TIMEOUT_DURATION == 86400

\* address(0), address(this) of PlayGame, and the account that deployed both
\* contracts and holds their roles
ZERO_ADDRESS == "0x0"
PLAY_GAME == "0xplaygame"
DEPLOYER == "0xdeployer"

\* an account that is no player of any match
OUTSIDER == "0xc"

\* the accounts that send transactions, and those that can hold tokens
Senders == Addresses \cup {OUTSIDER, DEPLOYER}
Holders == Senders \cup {PLAY_GAME}

\* the players and the winner a call may name
Accounts == Addresses \cup {OUTSIDER, ZERO_ADDRESS}

\* bytes32(0), and the match ids the calls name
ZERO_ID == 0
Bytes32 == 0..(MaxEscrowMatches + 1)

\* the stake createMatch is called with, and the tokens a player buys at a time
StakeAmounts == {0, 2}
BUY_AMOUNT == 4

\* _grantRole of the constructors: the deployer is operator, pauser and minter
HasRole(account) == account = DEPLOYER

\* matches[matchId] of an id that was never written
EmptyMatch ==
    [matchId |-> ZERO_ID, p1 |-> ZERO_ADDRESS, p2 |-> ZERO_ADDRESS, stake |-> 0,
     status |-> "CREATED", startTime |-> 0, p1Staked |-> FALSE, p2Staked |-> FALSE]

\* the time of the block in which the contracts were deployed
DEPLOY_TIME == 1

\* the supply the deployment script mints to the deployer, in whole tokens
INITIAL_SUPPLY == 1000000

\* the outcome of a call: it reverted with a reason and left the storage as it
\* was, or it succeeded and left the storage given
Reverted(reason) ==
    [status |-> "reverted", reason |-> reason,
     playGame |-> playGame, gameToken |-> gameToken]

Succeeded(game, token) ==
    [status |-> "success", reason |-> "", playGame |-> game, gameToken |-> token]

\* ERC20._transfer under GameToken's whenNotPaused: the token after the
\* transfer, or the error it reverts with
TokenTransfer(token, from, to, amount) ==
    IF token.paused THEN [ok |-> FALSE, reason |-> "EnforcedPause", token |-> token]
    ELSE IF to = ZERO_ADDRESS
    THEN [ok |-> FALSE, reason |-> "ERC20InvalidReceiver", token |-> token]
    ELSE IF token.balances[from] < amount
    THEN [ok |-> FALSE, reason |-> "ERC20InsufficientBalance", token |-> token]
    ELSE [ok |-> TRUE, reason |-> "",
          token |-> [token EXCEPT !.balances[from] = @ - amount,
                                  !.balances[to] = @ + amount]]

\* ERC20.transferFrom called by PlayGame: the allowance the owner gave to
\* PlayGame is spent, then the tokens move
\* the transferFrom that reports success and moves nothing
TokenTransferFromNothing(token, from, to, amount) ==
    [ok |-> TRUE, reason |-> "", token |-> token]

TokenTransferFrom(token, from, to, amount) ==
    IF token.paused THEN [ok |-> FALSE, reason |-> "EnforcedPause", token |-> token]
    ELSE IF token.allowances[from] < amount
    THEN [ok |-> FALSE, reason |-> "ERC20InsufficientAllowance", token |-> token]
    ELSE TokenTransfer([token EXCEPT !.allowances[from] = @ - amount],
                       from, to, amount)

----------------------------------------------------------------------------
(* Socket.IO event handlers *)

Init ==
    /\ playerSessions = {}
    /\ waitingPlayers = <<>>
    /\ activeMatches = <<>>
    /\ preStakedPlayers = <<>>
    /\ now = 0
    /\ timers = {}
    /\ sweepDue = FALSE
    /\ nextSocketId = 1
    /\ nextMatchId = 1
    /\ outbox = <<>>
    /\ playGame = [matches |-> [id \in Bytes32 |-> EmptyMatch],
                   totalMatches |-> 0, totalStaked |-> 0, totalPayouts |-> 0,
                   paused |-> FALSE]
    /\ gameToken = [balances |-> [h \in Holders |->
                                     IF h = DEPLOYER THEN INITIAL_SUPPLY ELSE 0],
                    allowances |-> [h \in Holders |-> 0],
                    totalSupply |-> INITIAL_SUPPLY,
                    paused |-> FALSE]
    /\ blockTimestamp = DEPLOY_TIME
    /\ receipt = [fn |-> "constructor", status |-> "success", reason |-> ""]

\* io.on('connection')
Connect ==
    /\ nextSocketId \in SocketIds
    /\ playerSessions' = playerSessions \cup {nextSocketId}
    /\ nextSocketId' = nextSocketId + 1
    /\ outbox' = <<>>
    /\ UNCHANGED <<waitingPlayers, activeMatches, preStakedPlayers, now, timers, sweepDue,
                   nextMatchId>>
    /\ UNCHANGED chainVars

\* the pre-stake check left out
FindMatchAllowedAlways(address) == TRUE

\* the guard of socket.on('findMatch'): the address has no pre-stake yet
FindMatchAllowed(address) == ~PreHas(address)

\* socket.on('findMatch')
FindMatchEvent(s, address, stake) ==
    /\ s \in playerSessions
    /\ IF ~FindMatchAllowed(address)
       THEN /\ outbox' = <<Emit(s, "matchmakingStatus",
                                [status |-> "error", message |-> "pending stake"])>>
            /\ UNCHANGED <<playerSessions, waitingPlayers, activeMatches,
                           preStakedPlayers, now, timers, sweepDue, nextSocketId, nextMatchId>>
       ELSE LET r == findMatch([address |-> address, stake |-> stake, socketId |-> s])
            IN  /\ preStakedPlayers' =
                       Append(preStakedPlayers,
                              [address |-> address,
                               stake |-> ParseInt(stake),
                               timestamp |-> now,
                               socketId |-> s,
                               confirmed |-> FALSE,
                               blockchainMatchId |-> UNDEFINED])
                /\ waitingPlayers' = r.waitingPlayers
                /\ activeMatches' = r.activeMatches
                /\ nextMatchId' = IF r.paired THEN nextMatchId + 1 ELSE nextMatchId
                /\ outbox' = r.emits \o
                       <<Emit(s, "matchmakingStatus",
                              [status |-> IF r.paired THEN "matched" ELSE "waiting",
                               message |-> IF r.paired THEN "Opponent found"
                                           ELSE "Searching"])>>
                /\ UNCHANGED <<playerSessions, now, timers, sweepDue, nextSocketId>>
    /\ UNCHANGED chainVars

\* socket.on('preStakeConfirmed')
PreStakeConfirmed(s, address, blockchainMatchId) ==
    /\ s \in playerSessions
    /\ LET i == PreIndexIn(preStakedPlayers, address)
       IN  preStakedPlayers' =
               IF i = 0 THEN preStakedPlayers
               ELSE [preStakedPlayers EXCEPT ![i].confirmed = TRUE,
                                             ![i].blockchainMatchId = blockchainMatchId]
    /\ outbox' = <<>>
    /\ UNCHANGED <<playerSessions, waitingPlayers, activeMatches, now, timers, sweepDue,
                   nextSocketId, nextMatchId>>
    /\ UNCHANGED chainVars

\* socket.on('matchCreated')
MatchCreated(s, matchId, playerStaked, blockchainMatchId) ==
    /\ s \in playerSessions
    /\ LET i == MatchIndexIn(activeMatches, matchId)
       IN  activeMatches' =
               IF i = 0 THEN activeMatches
               ELSE [activeMatches EXCEPT
                        ![i].blockchainMatchId = blockchainMatchId,
                        ![i].player1Staked =
                            IF ToLowerCase(playerStaked) = ToLowerCase(activeMatches[i].player1)
                            THEN TRUE ELSE @]
    /\ outbox' = <<>>
    /\ UNCHANGED <<playerSessions, waitingPlayers, preStakedPlayers, now, timers, sweepDue,
                   nextSocketId, nextMatchId>>
    /\ UNCHANGED chainVars

\* socket.on('playerStaked')
PlayerStaked(s, matchId, player) ==
    /\ s \in playerSessions
    /\ LET i == MatchIndexIn(activeMatches, matchId)
       IN  IF i = 0
           THEN /\ outbox' = <<>>
                /\ UNCHANGED activeMatches
           ELSE LET marked ==
                        IF ToLowerCase(player) = ToLowerCase(activeMatches[i].player2)
                        THEN [activeMatches[i] EXCEPT !.player2Staked = TRUE]
                        ELSE activeMatches[i]
                IN  IF marked.player1Staked /\ marked.player2Staked
                    THEN /\ activeMatches' =
                                [activeMatches EXCEPT
                                    ![i] = [marked EXCEPT !.status = "STAKED",
                                                          !.gameActive = TRUE]]
                         /\ outbox' =
                                EmitTo(playerSessions, marked.player1SocketId, "gameStart",
                                       [matchId |-> matchId, symbol |-> "X",
                                        isFirst |-> TRUE])
                                \o EmitTo(playerSessions, marked.player2SocketId,
                                          "gameStart",
                                          [matchId |-> matchId, symbol |-> "O",
                                           isFirst |-> FALSE])
                    ELSE /\ activeMatches' = [activeMatches EXCEPT ![i] = marked]
                         /\ outbox' = <<>>
    /\ UNCHANGED <<playerSessions, waitingPlayers, preStakedPlayers, now, timers, sweepDue,
                   nextSocketId, nextMatchId>>
    /\ UNCHANGED chainVars

\* the cancel that deletes the pre-stake and leaves the queue alone
CancelWaitingKept(waiting, address) == waiting

\* the cancel that drops the oldest bucket, whoever waits in it
CancelWaitingHead(waiting, address) ==
    IF Len(waiting) = 0 THEN waiting ELSE Tail(waiting)

\* "Remove from waiting queue" of socket.on('cancelMatchmaking')
CancelWaiting(waiting, address) ==
    RemoveFirstWaiting(waiting, LAMBDA p : p.address = address)

\* socket.on('cancelMatchmaking')
CancelMatchmaking(s, address) ==
    /\ s \in playerSessions
    /\ IF PreHas(address)
       THEN /\ preStakedPlayers' =
                   RemoveAt(preStakedPlayers, PreIndexIn(preStakedPlayers, address))
            /\ waitingPlayers' = CancelWaiting(waitingPlayers, address)
            /\ outbox' = <<Emit(s, "matchmakingStatus",
                                [status |-> "cancelled", message |-> "refunded"])>>
       ELSE /\ outbox' = <<>>
            /\ UNCHANGED <<preStakedPlayers, waitingPlayers>>
    /\ UNCHANGED <<playerSessions, activeMatches, now, timers, sweepDue, nextSocketId,
                   nextMatchId>>
    /\ UNCHANGED chainVars

\* the move relay that writes over an occupied cell
MoveAcceptedAnyCell(matches, matchId, index) ==
    /\ MatchIndexIn(matches, matchId) # 0
    /\ MatchGetIn(matches, matchId).gameActive
    /\ index \in 0..8

\* the guard of socket.on('makeMove'): if (match && match.gameActive), then
\* if (match.board[index] === ''); a cell outside 0..8 reads undefined
MoveAccepted(matches, matchId, index) ==
    /\ MatchIndexIn(matches, matchId) # 0
    /\ MatchGetIn(matches, matchId).gameActive
    /\ index \in 0..8
    /\ MatchGetIn(matches, matchId).board[index + 1] = ""

\* socket.on('makeMove')
MakeMove(s, matchId, row, col, symbol) ==
    /\ s \in playerSessions
    /\ LET i == MatchIndexIn(activeMatches, matchId)
           index == row * 3 + col
       IN  IF ~MoveAccepted(activeMatches, matchId, index)
           THEN /\ outbox' = <<>>
                /\ UNCHANGED <<activeMatches, timers>>
           ELSE LET moved == [activeMatches[i] EXCEPT
                                 !.board[index + 1] = symbol,
                                 !.moves = Append(@, [row |-> row, col |-> col,
                                                      symbol |-> symbol])]
                    placed == [activeMatches EXCEPT ![i] = moved]
                IN  IF checkWin(moved.board, symbol) \/ checkDraw(moved.board)
                    THEN LET e == endGame(placed, playerSessions, matchId,
                                          IF checkWin(moved.board, symbol)
                                          THEN symbol ELSE "DRAW",
                                          "NORMAL")
                         IN  /\ activeMatches' = e.activeMatches
                             /\ timers' = timers \cup e.timers
                             /\ outbox' = e.emits
                    ELSE LET nextPlayer ==
                                 IF moved.currentPlayer = "X" THEN "O" ELSE "X"
                         IN  /\ activeMatches' =
                                    [placed EXCEPT ![i].currentPlayer = nextPlayer]
                             /\ timers' = timers
                             /\ outbox' =
                                    notifyPlayers(playerSessions, moved, "moveMade",
                                        [row |-> row, col |-> col,
                                         symbol |-> symbol,
                                         nextPlayer |-> nextPlayer])
    /\ UNCHANGED <<playerSessions, waitingPlayers, preStakedPlayers, now, sweepDue,
                   nextSocketId, nextMatchId>>
    /\ UNCHANGED chainVars

\* socket.on('forfeitMatch')
ForfeitMatch(s, matchId, address) ==
    /\ s \in playerSessions
    /\ LET i == MatchIndexIn(activeMatches, matchId)
       IN  IF i = 0
           THEN /\ outbox' = <<>>
                /\ UNCHANGED <<activeMatches, timers>>
           ELSE LET winner == IF address = activeMatches[i].player1
                              THEN activeMatches[i].player2
                              ELSE activeMatches[i].player1
                    e == endGame(activeMatches, playerSessions, matchId, winner,
                                 "FORFEIT")
                IN  /\ activeMatches' = e.activeMatches
                    /\ timers' = timers \cup e.timers
                    /\ outbox' = e.emits
    /\ UNCHANGED <<playerSessions, waitingPlayers, preStakedPlayers, now, sweepDue,
                   nextSocketId, nextMatchId>>
    /\ UNCHANGED chainVars

\* socket.on('disconnect'): each of the three loops stops at its first hit
Disconnect(s) ==
    /\ s \in playerSessions
    /\ waitingPlayers' =
           RemoveFirstWaiting(waitingPlayers, LAMBDA p : p.socketId = s)
    /\ LET i == FindIndex(activeMatches,
                          LAMBDA m : m.player1SocketId = s \/ m.player2SocketId = s)
       IN  IF i = 0
           THEN /\ outbox' = <<>>
                /\ UNCHANGED <<activeMatches, timers>>
           ELSE LET winner == IF activeMatches[i].player1SocketId = s
                              THEN activeMatches[i].player2
                              ELSE activeMatches[i].player1
                    e == endGame(activeMatches, playerSessions,
                                 activeMatches[i].matchId, winner, "DISCONNECT")
                IN  /\ activeMatches' = e.activeMatches
                    /\ timers' = timers \cup e.timers
                    /\ outbox' = e.emits
    /\ LET i == FindIndex(preStakedPlayers, LAMBDA p : p.socketId = s)
       IN  preStakedPlayers' =
               IF i = 0 THEN preStakedPlayers ELSE RemoveAt(preStakedPlayers, i)
    /\ playerSessions' = playerSessions \ {s}
    /\ UNCHANGED <<now, sweepDue, nextSocketId, nextMatchId>>
    /\ UNCHANGED chainVars

----------------------------------------------------------------------------
(* Timers *)

Expired(preStake, t) == t - preStake.timestamp > PRE_STAKE_TIMEOUT

\* the setInterval callback at time t, from entry i of the pre-stakes as they
\* were when it started: an expired pre-stake is deleted, and with it the first
\* waiting entry of its address
RECURSIVE SweepWaiting(_, _, _, _)
SweepWaiting(pre, i, waiting, t) ==
    IF i > Len(pre) THEN waiting
    ELSE SweepWaiting(pre, i + 1,
             IF Expired(pre[i], t)
             THEN RemoveFirstWaiting(waiting, LAMBDA p : p.address = pre[i].address)
             ELSE waiting,
             t)

SweepPreStakes(pre, t) == SelectSeq(pre, LAMBDA p : ~Expired(p, t))

\* the setTimeout callbacks of endGame in `fired`, run on the match table
RECURSIVE EvictAll(_, _)
EvictAll(matches, fired) ==
    IF fired = {} THEN matches
    ELSE LET t == CHOOSE x \in fired : TRUE
         IN  EvictAll(MatchDelete(matches, t.matchId), fired \ {t})

\* The time the matchmaking pool lets pass between two bursts of client events:
\* the shortest after which a pre-stake of this instant has expired and the
\* sweep that removes it is due
ExpiryStep == PRE_STAKE_TIMEOUT + SWEEP_INTERVAL

\* d milliseconds, a multiple of the sweep interval, pass without a client event.  Every callback that is due now
\* has run.  The callbacks scheduled strictly before now + d run at their
\* times: the eviction timers due before then, and the sweeps of the interval
\* boundaries before then, of which the last removes what the earlier ones
\* would.  The sweep scheduled at now + d becomes due.
AdvanceClock(d) ==
    /\ now + d <= MaxAdvances * d
    /\ ~sweepDue
    /\ \A t \in timers : t.due > now
    /\ now' = now + d
    /\ LET fired == {t \in timers : t.due < now + d}
           lastSweep == now + d - SWEEP_INTERVAL
       IN  /\ timers' = timers \ fired
           /\ activeMatches' = EvictAll(activeMatches, fired)
           /\ preStakedPlayers' =
                  IF lastSweep > now THEN SweepPreStakes(preStakedPlayers, lastSweep)
                  ELSE preStakedPlayers
           /\ waitingPlayers' =
                  IF lastSweep > now
                  THEN SweepWaiting(preStakedPlayers, 1, waitingPlayers, lastSweep)
                  ELSE waitingPlayers
    /\ sweepDue' = TRUE
    /\ outbox' = <<>>
    /\ UNCHANGED <<playerSessions, nextSocketId, nextMatchId>>
    /\ UNCHANGED chainVars

\* the setInterval callback
ExpirySweep ==
    /\ sweepDue
    /\ sweepDue' = FALSE
    /\ preStakedPlayers' = SweepPreStakes(preStakedPlayers, now)
    /\ waitingPlayers' = SweepWaiting(preStakedPlayers, 1, waitingPlayers, now)
    /\ outbox' = <<>>
    /\ UNCHANGED <<playerSessions, activeMatches, now, timers,
                   nextSocketId, nextMatchId>>
    /\ UNCHANGED chainVars

\* the setTimeout callback of endGame
EvictMatch(t) ==
    /\ t \in timers
    /\ t.due <= now
    /\ timers' = timers \ {t}
    /\ activeMatches' = MatchDelete(activeMatches, t.matchId)
    /\ outbox' = <<>>
    /\ UNCHANGED <<playerSessions, waitingPlayers, preStakedPlayers, now, sweepDue,
                   nextSocketId, nextMatchId>>
    /\ UNCHANGED chainVars

----------------------------------------------------------------------------
(* Calls of the game logic functions *)

\* where console.log writes
CONSOLE == -1

\* a call checkWin(board, symbol): its console.log line carries the marker,
\* the board and the value it returns
CheckWinCall(board, symbol) ==
    /\ outbox' = <<Emit(CONSOLE, "checkWin",
                        [symbol |-> symbol, board |-> board,
                         hasWon |-> checkWin(board, symbol)])>>
    /\ UNCHANGED <<playerSessions, waitingPlayers, activeMatches, preStakedPlayers,
                   now, timers, sweepDue, nextSocketId, nextMatchId>>
    /\ UNCHANGED chainVars

\* the caller of a function, as the receiver of the value it returns
CALLER == -2

\* a call checkDraw(board), with the value it returns
CheckDrawCall(board) ==
    /\ outbox' = <<Emit(CALLER, "checkDraw",
                        [board |-> board, isDraw |-> checkDraw(board)])>>
    /\ UNCHANGED <<playerSessions, waitingPlayers, activeMatches, preStakedPlayers,
                   now, timers, sweepDue, nextSocketId, nextMatchId>>
    /\ UNCHANGED chainVars

----------------------------------------------------------------------------
(* API endpoints *)

\* the HTTP client, as the receiver of a response
HTTP_CLIENT == 0

\* app.get('/matches/:matchId')
GetMatch(matchId) ==
    /\ outbox' =
           <<Emit(HTTP_CLIENT, "GET /matches/:matchId",
                  IF MatchIndexIn(activeMatches, matchId) # 0
                  THEN [status |-> 200, body |-> MatchGet(matchId)]
                  ELSE [status |-> 404, body |-> [error |-> "Match not found"]])>>
    /\ UNCHANGED <<playerSessions, waitingPlayers, activeMatches, preStakedPlayers,
                   now, timers, sweepDue, nextSocketId, nextMatchId>>
    /\ UNCHANGED chainVars

----------------------------------------------------------------------------
(* GameToken *)

\* a transaction: the storage and the receipt it leaves
Transact(fn, r) ==
    /\ playGame' = r.playGame
    /\ gameToken' = r.gameToken
    /\ receipt' = [fn |-> fn, status |-> r.status, reason |-> r.reason]
    /\ UNCHANGED blockTimestamp
    /\ UNCHANGED serverVars

\* GameToken.mint(to, amount)
mint(sender, to, amount) ==
    IF ~HasRole(sender) THEN Reverted("AccessControlUnauthorizedAccount")
    ELSE IF gameToken.paused THEN Reverted("EnforcedPause")
    ELSE IF to = ZERO_ADDRESS THEN Reverted("GameToken: cannot mint to zero address")
    ELSE IF ~(amount > 0) THEN Reverted("GameToken: amount must be greater than 0")
    ELSE Succeeded(playGame,
                   [gameToken EXCEPT !.balances[to] = @ + amount,
                                     !.totalSupply = @ + amount])

Mint(sender, to, amount) == Transact("mint", mint(sender, to, amount))

\* GameToken.approve(address(PlayGame), amount)
approve(sender, amount) ==
    IF gameToken.paused THEN Reverted("EnforcedPause")
    ELSE Succeeded(playGame, [gameToken EXCEPT !.allowances[sender] = amount])

Approve(sender, amount) == Transact("approve", approve(sender, amount))

----------------------------------------------------------------------------
(* PlayGame *)

\* createMatch(matchId, p1, p2, stake)
createMatch(sender, matchId, p1, p2, stake) ==
    IF ~HasRole(sender) THEN Reverted("AccessControlUnauthorizedAccount")
    ELSE IF playGame.paused THEN Reverted("EnforcedPause")
    ELSE IF matchId = ZERO_ID THEN Reverted("PlayGame: invalid match ID")
    ELSE IF p1 = ZERO_ADDRESS THEN Reverted("PlayGame: invalid player 1 address")
    ELSE IF p2 = ZERO_ADDRESS THEN Reverted("PlayGame: invalid player 2 address")
    ELSE IF p1 = p2 THEN Reverted("PlayGame: players must be different")
    ELSE IF ~(stake > 0) THEN Reverted("PlayGame: stake must be greater than 0")
    ELSE IF playGame.matches[matchId].matchId # ZERO_ID
    THEN Reverted("PlayGame: match already exists")
    ELSE Succeeded([playGame EXCEPT
                       !.matches[matchId] =
                           [matchId |-> matchId, p1 |-> p1, p2 |-> p2,
                            stake |-> stake, status |-> "CREATED", startTime |-> 0,
                            p1Staked |-> FALSE, p2Staked |-> FALSE],
                       !.totalMatches = @ + 1],
                   gameToken)

CreateMatch(sender, matchId, p1, p2, stake) ==
    Transact("createMatch", createMatch(sender, matchId, p1, p2, stake))

\* require(matchData.status == MatchStatus.CREATED) of stake
StakeOpen(matchData) == matchData.status = "CREATED"

\* require(msg.sender == matchData.p1 || msg.sender == matchData.p2)
IsParticipant(matchData, account) ==
    account = matchData.p1 \/ account = matchData.p2

\* the flag test that lets a player stake again
NotYetStakedEver(matchData, account) == TRUE

\* require(!matchData.p1Staked) for player 1, require(!matchData.p2Staked)
\* for anyone else
NotYetStaked(matchData, account) ==
    IF account = matchData.p1 THEN ~matchData.p1Staked ELSE ~matchData.p2Staked

\* stake(matchId)
stakeMatch(sender, matchId) ==
    LET matchData == playGame.matches[matchId]
        stakeAmount == matchData.stake
        flagged == IF sender = matchData.p1
                   THEN [matchData EXCEPT !.p1Staked = TRUE]
                   ELSE [matchData EXCEPT !.p2Staked = TRUE]
        pull == TokenTransferFrom(gameToken, sender, PLAY_GAME, stakeAmount)
        started == IF flagged.p1Staked /\ flagged.p2Staked
                   THEN [flagged EXCEPT !.status = "STAKED",
                                        !.startTime = blockTimestamp]
                   ELSE flagged
    IN  IF playGame.paused THEN Reverted("EnforcedPause")
        ELSE IF matchData.matchId = ZERO_ID
        THEN Reverted("PlayGame: match does not exist")
        ELSE IF ~StakeOpen(matchData)
        THEN Reverted("PlayGame: match not available for staking")
        ELSE IF ~IsParticipant(matchData, sender)
        THEN Reverted("PlayGame: not a participant")
        ELSE IF ~(gameToken.balances[sender] >= stakeAmount)
        THEN Reverted("PlayGame: insufficient GT balance")
        ELSE IF ~(gameToken.allowances[sender] >= stakeAmount)
        THEN Reverted("PlayGame: insufficient GT allowance")
        ELSE IF ~NotYetStaked(matchData, sender)
        THEN Reverted(IF sender = matchData.p1
                      THEN "PlayGame: player 1 already staked"
                      ELSE "PlayGame: player 2 already staked")
        ELSE IF ~pull.ok THEN Reverted(pull.reason)
        ELSE Succeeded([playGame EXCEPT !.matches[matchId] = started,
                                        !.totalStaked = @ + stakeAmount],
                       pull.token)

Stake(sender, matchId) == Transact("stake", stakeMatch(sender, matchId))

\* require(matchData.status == MatchStatus.STAKED) of commitResult
Settleable(matchData) == matchData.status = "STAKED"

\* the winner test that takes any address
ValidWinnerAny(matchData, winner) == TRUE

\* require(winner == matchData.p1 || winner == matchData.p2)
ValidWinner(matchData, winner) == winner = matchData.p1 \/ winner = matchData.p2

\* the settlement that leaves the status as it was
SettleNot(matchData) == matchData

\* matchData.status = MatchStatus.SETTLED
Settle(matchData) == [matchData EXCEPT !.status = "SETTLED"]

\* the payout of one stake only
PayoutSingle(matchData) == matchData.stake

\* uint256 totalPayout = matchData.stake * 2
Payout(matchData) == matchData.stake * 2

\* commitResult(matchId, winner)
commitResult(sender, matchId, winner) ==
    LET matchData == playGame.matches[matchId]
        totalPayout == Payout(matchData)
        pay == TokenTransfer(gameToken, PLAY_GAME, winner, totalPayout)
    IN  IF ~HasRole(sender) THEN Reverted("AccessControlUnauthorizedAccount")
        ELSE IF playGame.paused THEN Reverted("EnforcedPause")
        ELSE IF matchData.matchId = ZERO_ID
        THEN Reverted("PlayGame: match does not exist")
        ELSE IF ~Settleable(matchData) THEN Reverted("PlayGame: match not staked")
        ELSE IF ~ValidWinner(matchData, winner)
        THEN Reverted("PlayGame: invalid winner")
        ELSE IF ~pay.ok THEN Reverted(pay.reason)
        ELSE Succeeded([playGame EXCEPT !.matches[matchId] = Settle(matchData),
                                        !.totalPayouts = @ + totalPayout],
                       pay.token)

CommitResult(sender, matchId, winner) ==
    Transact("commitResult", commitResult(sender, matchId, winner))

\* the timeout test that lets every refund through
RefundDueAlways(matchData) == TRUE

\* require(block.timestamp >= matchData.startTime + TIMEOUT_DURATION)
RefundDue(matchData) == blockTimestamp >= matchData.startTime + TIMEOUT_DURATION

\* refund(matchId): totalStaked -= stakeAmount reverts when it would go
\* below zero (checked arithmetic)
refund(sender, matchId) ==
    LET matchData == playGame.matches[matchId]
        stakeAmount == matchData.stake
        back1 == IF matchData.p1Staked
                 THEN TokenTransfer(gameToken, PLAY_GAME, matchData.p1, stakeAmount)
                 ELSE [ok |-> TRUE, reason |-> "", token |-> gameToken]
        staked1 == IF matchData.p1Staked THEN playGame.totalStaked - stakeAmount
                   ELSE playGame.totalStaked
        back2 == IF matchData.p2Staked
                 THEN TokenTransfer(back1.token, PLAY_GAME, matchData.p2, stakeAmount)
                 ELSE [ok |-> TRUE, reason |-> "", token |-> back1.token]
        staked2 == IF matchData.p2Staked THEN staked1 - stakeAmount ELSE staked1
    IN  IF playGame.paused THEN Reverted("EnforcedPause")
        ELSE IF matchData.matchId = ZERO_ID
        THEN Reverted("PlayGame: match does not exist")
        ELSE IF matchData.status # "STAKED"
        THEN Reverted("PlayGame: match not eligible for refund")
        ELSE IF ~RefundDue(matchData)
        THEN Reverted("PlayGame: refund timeout not reached")
        ELSE IF ~back1.ok THEN Reverted(back1.reason)
        ELSE IF staked1 < 0 THEN Reverted("Panic(0x11)")
        ELSE IF ~back2.ok THEN Reverted(back2.reason)
        ELSE IF staked2 < 0 THEN Reverted("Panic(0x11)")
        ELSE Succeeded([playGame EXCEPT !.matches[matchId].status = "REFUNDED",
                                        !.totalStaked = staked2],
                       back2.token)

Refund(sender, matchId) == Transact("refund", refund(sender, matchId))

\* pause(): _pause() is whenNotPaused
pause(sender) ==
    IF ~HasRole(sender) THEN Reverted("AccessControlUnauthorizedAccount")
    ELSE IF playGame.paused THEN Reverted("EnforcedPause")
    ELSE Succeeded([playGame EXCEPT !.paused = TRUE], gameToken)

Pause(sender) == Transact("pause", pause(sender))

\* unpause(): _unpause() is whenPaused
unpause(sender) ==
    IF ~HasRole(sender) THEN Reverted("AccessControlUnauthorizedAccount")
    ELSE IF ~playGame.paused THEN Reverted("ExpectedPause")
    ELSE Succeeded([playGame EXCEPT !.paused = FALSE], gameToken)

Unpause(sender) == Transact("unpause", unpause(sender))

\* the time between two blocks of the model: the refund timeout, so that a
\* match staked in one block can be refunded from the next block on
BlockStep == TIMEOUT_DURATION

\* a later block is mined
MineBlock ==
    /\ blockTimestamp' = blockTimestamp + BlockStep
    /\ UNCHANGED <<playGame, gameToken, receipt>>
    /\ UNCHANGED serverVars

----------------------------------------------------------------------------

(* The caps that keep the model finite: uuidv4() has handed out at most    *)
(* MaxMatches ids, and no match has more than MaxMoves moves.               *)
MatchesWithin == nextMatchId' <= MaxMatches + 1
MovesWithin ==
    \A i \in DOMAIN activeMatches' : Len(activeMatches'[i].moves) <= MaxMoves

(* The matchmaking pool: every join, cancel, disconnect and timer event, for *)
(* every address and stake; the matches it creates are left to their timers. *)
Next ==
    \/ Connect
    \/ \E s \in SocketIds, a \in Addresses, st \in Stakes :
           FindMatchEvent(s, a, st) /\ MatchesWithin
    \/ \E s \in SocketIds, a \in Addresses : CancelMatchmaking(s, a)
    \/ \E s \in SocketIds : Disconnect(s)
    \/ AdvanceClock(ExpiryStep)
    \/ ExpirySweep

Spec == Init /\ [][Next]_vars

(* The life of a match: the accounts join for one stake, confirm their      *)
(* stakes, play on the top row, forfeit, disconnect, and the match is       *)
(* evicted when its timer is due.                                           *)
PlayStakes == {10}

\* the moves of the match life cycle: marker X along the top row, which
\* completes a match by a win in three moves
LineCols == {0, 1, 2}
LineSymbols == {"X"}

NextMatch ==
    \/ Connect
    \/ \E s \in SocketIds, a \in Addresses, st \in PlayStakes :
           FindMatchEvent(s, a, st) /\ MatchesWithin
    \/ \E s \in SocketIds, m \in MatchIds, a \in Confirmers, b \in BlockchainIds :
           MatchCreated(s, m, a, b)
    \/ \E s \in SocketIds, m \in MatchIds, a \in Confirmers : PlayerStaked(s, m, a)
    \/ \E s \in SocketIds, m \in MatchIds, r \in Rows, c \in LineCols, y \in LineSymbols :
           MakeMove(s, m, r, c, y) /\ MovesWithin
    \/ \E s \in SocketIds, m \in MatchIds, a \in Addresses : ForfeitMatch(s, m, a)
    \/ \E s \in SocketIds : Disconnect(s)
    \/ AdvanceClock(EVICT_DELAY)
    \/ ExpirySweep
    \/ \E t \in timers : EvictMatch(t)

SpecMatch == Init /\ [][NextMatch]_vars

(* The move relay: the accounts join and confirm their stakes, and every     *)
(* connection sends moves for every match id, cell and marker.              *)
NextGame ==
    \/ Connect
    \/ \E s \in SocketIds, a \in Addresses, st \in PlayStakes :
           FindMatchEvent(s, a, st) /\ MatchesWithin
    \/ \E s \in SocketIds, m \in MatchIds, a \in Confirmers, b \in BlockchainIds :
           MatchCreated(s, m, a, b)
    \/ \E s \in SocketIds, m \in MatchIds, a \in Confirmers : PlayerStaked(s, m, a)
    \/ \E s \in SocketIds, m \in MatchIds, r \in Rows, c \in Cols, y \in Symbols :
           MakeMove(s, m, r, c, y) /\ MovesWithin

SpecGame == Init /\ [][NextGame]_vars

(* A whole game: the accounts join and confirm their stakes, and the cells  *)
(* of the board are played in row-major order, each with either marker, so *)
(* that the board can fill up.                                              *)
BoardRows == {0, 1, 2}
BoardCols == {0, 1, 2}
Markers == {"X", "O"}

\* the move goes to the cell after the last one played
InOrder(matchId, row, col) ==
    /\ MatchIndexIn(activeMatches, matchId) # 0
    /\ row * 3 + col = Len(MatchGet(matchId).moves)

NextBoard ==
    \/ Connect
    \/ \E s \in SocketIds, a \in Addresses, st \in PlayStakes :
           FindMatchEvent(s, a, st) /\ MatchesWithin
    \/ \E s \in SocketIds, m \in MatchIds, a \in Addresses, b \in BlockchainIds :
           MatchCreated(s, m, a, b)
    \/ \E s \in SocketIds, m \in MatchIds, a \in Addresses : PlayerStaked(s, m, a)
    \/ \E s \in SocketIds, m \in MatchIds, r \in BoardRows, c \in BoardCols,
          y \in Markers :
           InOrder(m, r, c) /\ MakeMove(s, m, r, c, y)

SpecBoard == Init /\ [][NextBoard]_vars

(* The ways a match ends, within its retention window: the accounts join,  *)
(* confirm their stakes, play on the top row, forfeit and disconnect.       *)
NextEnd ==
    \/ Connect
    \/ \E s \in SocketIds, a \in Addresses, st \in PlayStakes :
           FindMatchEvent(s, a, st) /\ MatchesWithin
    \/ \E s \in SocketIds, m \in MatchIds, a \in Addresses, b \in BlockchainIds :
           MatchCreated(s, m, a, b)
    \/ \E s \in SocketIds, m \in MatchIds, a \in Addresses : PlayerStaked(s, m, a)
    \/ \E s \in SocketIds, m \in MatchIds, r \in Rows, c \in LineCols, y \in LineSymbols :
           MakeMove(s, m, r, c, y) /\ MovesWithin
    \/ \E s \in SocketIds, m \in MatchIds, a \in Addresses : ForfeitMatch(s, m, a)
    \/ \E s \in SocketIds : Disconnect(s)

SpecEnd == Init /\ [][NextEnd]_vars

(* Playing again: the accounts join, cancel their pre-stakes and join again *)
(* while their earlier match is still in the table, confirm their stakes    *)
(* and disconnect.                                                          *)
RematchesWithin == nextMatchId' <= MaxRematches + 1

NextRejoin ==
    \/ Connect
    \/ \E s \in SocketIds, a \in Addresses, st \in PlayStakes :
           FindMatchEvent(s, a, st) /\ RematchesWithin
    \/ \E s \in SocketIds, a \in Addresses : CancelMatchmaking(s, a)
    \/ \E s \in SocketIds, m \in MatchIds, a \in Addresses, b \in BlockchainIds :
           MatchCreated(s, m, a, b)
    \/ \E s \in SocketIds, m \in MatchIds, a \in Addresses : PlayerStaked(s, m, a)
    \/ \E s \in SocketIds : Disconnect(s)

SpecRejoin == Init /\ [][NextRejoin]_vars

(* The retention of a finished match: the accounts join, confirm their      *)
(* stakes and forfeit, time passes, the eviction timers fire and the match  *)
(* is looked up.                                                            *)
NextEvict ==
    \/ Connect
    \/ \E s \in SocketIds, a \in Addresses, st \in PlayStakes :
           FindMatchEvent(s, a, st) /\ MatchesWithin
    \/ \E s \in SocketIds, m \in MatchIds, a \in Addresses, b \in BlockchainIds :
           MatchCreated(s, m, a, b)
    \/ \E s \in SocketIds, m \in MatchIds, a \in Addresses : PlayerStaked(s, m, a)
    \/ \E s \in SocketIds, m \in MatchIds, a \in Addresses : ForfeitMatch(s, m, a)
    \/ AdvanceClock(EVICT_DELAY)
    \/ ExpirySweep
    \/ \E t \in timers : EvictMatch(t)
    \/ \E m \in MatchIds : GetMatch(m)

SpecEvict == Init /\ [][NextEvict]_vars

(* The win test on its own: checkWin is called with every board of 9 cells  *)
(* over empty, X and O and with either marker.                              *)
Cells == {"", "X", "O"}
Boards == [1..9 -> Cells]

\* checkWin keeps no state, so every call is the first call of some behaviour
FirstCall == outbox = <<>>

NextWin ==
    /\ FirstCall
    /\ \E board \in Boards, symbol \in Markers : CheckWinCall(board, symbol)

SpecWin == Init /\ [][NextWin]_vars

(* The draw test on its own: checkDraw is called with every board of 9     *)
(* cells over empty, X and O.                                               *)
NextDraw ==
    /\ FirstCall
    /\ \E board \in Boards : CheckDrawCall(board)

SpecDraw == Init /\ [][NextDraw]_vars

(* The confirmed pre-stakes: the accounts join, confirm their pre-stakes,   *)
(* cancel and forfeit, time passes and the eviction timers fire.            *)
NextConfirm ==
    \/ Connect
    \/ \E s \in SocketIds, a \in Addresses, st \in PlayStakes :
           FindMatchEvent(s, a, st) /\ MatchesWithin
    \/ \E s \in SocketIds, a \in Addresses, b \in BlockchainIds :
           PreStakeConfirmed(s, a, b)
    \/ \E s \in SocketIds, a \in Addresses : CancelMatchmaking(s, a)
    \/ \E s \in SocketIds, m \in MatchIds, a \in Addresses : ForfeitMatch(s, m, a)
    \/ AdvanceClock(EVICT_DELAY)
    \/ ExpirySweep
    \/ \E t \in timers : EvictMatch(t)

SpecConfirm == Init /\ [][NextConfirm]_vars

(* The escrow: the deployer mints tokens to the players, creates matches    *)
(* and commits results; every account approves, stakes and asks for a       *)
(* refund; time passes.                                                     *)
MatchesCreatedWithin == playGame'.totalMatches <= MaxEscrowMatches
BlocksWithin == blockTimestamp' <= DEPLOY_TIME + MaxBlocks * BlockStep

\* a player buys tokens when they have none
Broke(account) == gameToken.balances[account] = 0

\* the players createMatch is called with: 0xa against 0xb, and the pairs it
\* rejects
FirstPlayers == {"0xa", ZERO_ADDRESS}
SecondPlayers == {"0xa", "0xb", ZERO_ADDRESS}

\* the accounts that stake and ask for refunds, and those that commit results
Callers == Addresses \cup {OUTSIDER}
Committers == {DEPLOYER, OUTSIDER}

NextEscrow ==
    \/ \E to \in Addresses : Broke(to) /\ Mint(DEPLOYER, to, BUY_AMOUNT)
    \/ \E sender \in Addresses, amount \in StakeAmounts \ {0} : Approve(sender, amount)
    \/ \E matchId \in Bytes32, p1 \in FirstPlayers, p2 \in SecondPlayers,
          amount \in StakeAmounts :
           CreateMatch(DEPLOYER, matchId, p1, p2, amount) /\ MatchesCreatedWithin
    \/ \E sender \in Callers, matchId \in Bytes32 : Stake(sender, matchId)
    \/ \E sender \in Committers, matchId \in Bytes32, winner \in Accounts :
           CommitResult(sender, matchId, winner)
    \/ \E sender \in Callers, matchId \in Bytes32 : Refund(sender, matchId)
    \/ MineBlock /\ BlocksWithin

SpecEscrow == Init /\ [][NextEscrow]_vars

(* The escrow with its emergency stop: as above, and the contract is paused *)
(* and unpaused.                                                            *)
NextPausable ==
    \/ NextEscrow
    \/ \E sender \in {DEPLOYER, OUTSIDER} : Pause(sender)
    \/ \E sender \in {DEPLOYER, OUTSIDER} : Unpause(sender)

SpecPausable == Init /\ [][NextPausable]_vars

----------------------------------------------------------------------------
(* Properties of the matchmaking pool (Spec) *)

\* the entries of the waiting pool, as <<bucket, position>>
WaitingEntries(waiting) ==
    UNION {{<<b, i>> : i \in DOMAIN waiting[b].players} : b \in DOMAIN waiting}

StakeWaitingIn(waiting, stake) == \E b \in DOMAIN waiting : waiting[b].stake = stake

MatchFoundSent(out, to, matchData) ==
    \E k \in DOMAIN out : out[k] = Emit(to, "matchFound", matchData)

\* C1: when a findMatch for stake S is accepted while an entry for S is
\* waiting, exactly one match is created, with the oldest waiting participant
\* as player1 and the newcomer as player2; the waiting entry leaves the pool;
\* both participants are sent matchFound with that match; and no bucket for S
\* is left, so the next join-intent for S is enqueued, not paired.
C1_PairingFifoOnce ==
    [][\A s \in SocketIds, a \in Addresses, st \in Stakes :
          (FindMatchEvent(s, a, st) /\ ~PreHas(a) /\ WaitingHas(st)) =>
              LET w == Head(waitingPlayers[WaitingIndex(st)].players)
                  m == activeMatches'[Len(activeMatches')]
              IN  /\ Len(activeMatches') = Len(activeMatches) + 1
                  /\ SubSeq(activeMatches', 1, Len(activeMatches)) = activeMatches
                  /\ m.player1 = w.address
                  /\ m.player2 = a
                  /\ m.status = "CREATED"
                  /\ \A i \in DOMAIN activeMatches : activeMatches[i].matchId # m.matchId
                  /\ \A e \in WaitingEntries(waitingPlayers') :
                         waitingPlayers'[e[1]].players[e[2]] # w
                  /\ MatchFoundSent(outbox', w.socketId, m)
                  /\ MatchFoundSent(outbox', s, m)
                  /\ ~StakeWaitingIn(waitingPlayers', st)
      ]_vars

StatusSent(out, to, status) ==
    \E k \in DOMAIN out :
        /\ out[k].to = to
        /\ out[k].event = "matchmakingStatus"
        /\ out[k].data.status = status

PreStakesOf(address) ==
    {i \in DOMAIN preStakedPlayers : preStakedPlayers[i].address = address}

\* C2: a findMatch for an address that has a pre-stake sends the requester an
\* error status and leaves waitingPlayers, activeMatches and preStakedPlayers
\* as they were; no address ever has two pre-stakes.
C2_DuplicateIntentRejected ==
    /\ [](\A a \in Addresses : Cardinality(PreStakesOf(a)) <= 1)
    /\ [][\A s \in SocketIds, a \in Addresses, st \in Stakes :
             (PreHas(a) /\ FindMatchEvent(s, a, st)) =>
                 /\ UNCHANGED <<waitingPlayers, activeMatches, preStakedPlayers>>
                 /\ Len(outbox') = 1
                 /\ StatusSent(outbox', s, "error")
         ]_vars

\* C2 witness: an address that is waiting with its pre-stake has just been
\* refused a second join-intent.
C2_Witness ==
    \E s \in SocketIds, a \in Addresses :
        /\ StatusSent(outbox, s, "error")
        /\ PreHas(a)
        /\ \E e \in WaitingEntries(waitingPlayers) :
               waitingPlayers[e[1]].players[e[2]].address = a

\* C3: each participant address appears in at most one waiting entry across
\* all stake buckets.
C3_OneWaitingEntryPerAddress ==
    \A e, f \in WaitingEntries(waitingPlayers) :
        waitingPlayers[e[1]].players[e[2]].address
            = waitingPlayers[f[1]].players[f[2]].address
        => e = f

\* C3 witness: time has passed, the sweep has run and a connection has
\* dropped; two addresses wait in two buckets, the second just enqueued.
C3_Witness ==
    /\ Len(waitingPlayers) = 2
    /\ now > 0
    /\ ~sweepDue
    /\ nextSocketId > 2
    /\ Cardinality(playerSessions) = 1
    /\ StatusSent(outbox, CHOOSE s \in playerSessions : TRUE, "waiting")

----------------------------------------------------------------------------
(* Properties of the life of a match (SpecMatch) *)

\* the successor of the match at position i, when it is still in the table
StillThere(i) == MatchIndexIn(activeMatches', activeMatches[i].matchId) # 0
After(i) == MatchGetIn(activeMatches', activeMatches[i].matchId)

\* C4: a match that is not completed is active exactly when both staked flags
\* are set, whichever confirmation arrived last.
C4_ActiveIffBothStaked ==
    \A i \in DOMAIN activeMatches :
        activeMatches[i].status # "COMPLETED" =>
            (activeMatches[i].gameActive <=>
                (activeMatches[i].player1Staked /\ activeMatches[i].player2Staked))

\* C5: while a COMPLETED match stays in the table, no event changes its
\* status, gameActive flag, result, endReason or board.
C5_CompletedIsTerminal ==
    [][\A i \in DOMAIN activeMatches :
          (activeMatches[i].status = "COMPLETED" /\ StillThere(i)) =>
              /\ After(i).status = activeMatches[i].status
              /\ After(i).gameActive = activeMatches[i].gameActive
              /\ After(i).result = activeMatches[i].result
              /\ After(i).endReason = activeMatches[i].endReason
              /\ After(i).board = activeMatches[i].board
      ]_vars

StatusRank(status) ==
    IF status = "CREATED" THEN 0 ELSE IF status = "STAKED" THEN 1 ELSE 2

\* C6: a match's status only moves forward along CREATED, active, COMPLETED,
\* and a match becomes COMPLETED only from the active state.
C6_CompletedOnlyFromActive ==
    [][\A i \in DOMAIN activeMatches :
          StillThere(i) =>
              /\ StatusRank(After(i).status) >= StatusRank(activeMatches[i].status)
              /\ (After(i).status = "COMPLETED"
                      /\ activeMatches[i].status # "COMPLETED")
                 => (activeMatches[i].status = "STAKED" /\ activeMatches[i].gameActive)
      ]_vars

----------------------------------------------------------------------------
(* Properties of the move relay (SpecGame) *)

MatchKnown(matchId) == MatchIndexIn(activeMatches, matchId) # 0

NonEmptyCells(board) == {c \in DOMAIN board : board[c] # ""}

\* C7: a makeMove whose marker is not the match's currentPlayer leaves the
\* board, the move sequence and currentPlayer as they were, and the markers
\* of the accepted moves alternate X, O, X, ... from X.
C7_TurnOrderEnforced ==
    /\ [](\A i \in DOMAIN activeMatches :
            \A k \in DOMAIN activeMatches[i].moves :
                activeMatches[i].moves[k].symbol = IF k % 2 = 1 THEN "X" ELSE "O")
    /\ [][\A s \in SocketIds, m \in MatchIds, r \in Rows, c \in Cols, y \in Symbols :
             (/\ MakeMove(s, m, r, c, y)
              /\ MatchKnown(m)
              /\ y # MatchGet(m).currentPlayer) =>
                 /\ MatchGetIn(activeMatches', m).board = MatchGet(m).board
                 /\ MatchGetIn(activeMatches', m).moves = MatchGet(m).moves
                 /\ MatchGetIn(activeMatches', m).currentPlayer
                        = MatchGet(m).currentPlayer
         ]_vars

\* C8: a makeMove is accepted only from the connection of one of the match's
\* two participants playing its own marker, X for player1 and O for player2;
\* a move sent otherwise leaves the match unchanged.
C8_OnlyParticipantsMove ==
    [][\A s \in SocketIds, m \in MatchIds, r \in Rows, c \in Cols, y \in Symbols :
          (/\ MakeMove(s, m, r, c, y)
           /\ MatchKnown(m)
           /\ ~(\/ (s = MatchGet(m).player1SocketId /\ y = "X")
                \/ (s = MatchGet(m).player2SocketId /\ y = "O"))) =>
              UNCHANGED activeMatches
      ]_vars

\* the moves C9 is about: to an unknown match id, to a match whose status is
\* CREATED or COMPLETED, or onto a cell of the board that is not empty
RejectCase(m, r, c) ==
    \/ ~MatchKnown(m)
    \/ MatchGet(m).status \in {"CREATED", "COMPLETED"}
    \/ (r * 3 + c \in 0..8 /\ MatchGet(m).board[r * 3 + c + 1] # "")

\* C9: a makeMove for an unknown match id, for a match whose status is
\* CREATED or COMPLETED, or on a cell that is not empty leaves the match table
\* (boards, move sequences, currentPlayer, status) as it was, i.e. no step that
\* changes the match table is such a makeMove; and a cell, once non-empty,
\* keeps its value.
C9_RejectedMoveChangesNothing ==
    /\ [][activeMatches' # activeMatches =>
             \A m \in MatchIds, r \in Rows, c \in Cols :
                 RejectCase(m, r, c) =>
                     \A s \in SocketIds, y \in Symbols : ~MakeMove(s, m, r, c, y)
         ]_vars
    /\ [][\A i \in DOMAIN activeMatches :
             StillThere(i) =>
                 \A c \in NonEmptyCells(activeMatches[i].board) :
                     After(i).board[c] = activeMatches[i].board[c]
         ]_vars

\* C9 witness: a completed match with two occupied cells, and a last event,
\* after its completion, that emitted nothing.
C9_Witness ==
    \E i \in DOMAIN activeMatches :
        /\ activeMatches[i].status = "COMPLETED"
        /\ Cardinality(NonEmptyCells(activeMatches[i].board)) >= 2
        /\ outbox = <<>>

\* C10: every match in the table has a board of 9 cells and as many moves as
\* non-empty cells.
C10_MovesMatchCells ==
    \A i \in DOMAIN activeMatches :
        /\ Len(activeMatches[i].board) = 9
        /\ Len(activeMatches[i].moves)
               = Cardinality(NonEmptyCells(activeMatches[i].board))

----------------------------------------------------------------------------
(* Properties of the end of a game (SpecBoard) *)

\* the 8 lines of the board, as sets of cell indices 0..8
Lines ==
    {{0, 1, 2}, {3, 4, 5}, {6, 7, 8},
     {0, 3, 6}, {1, 4, 7}, {2, 5, 8},
     {0, 4, 8}, {2, 4, 6}}

HasLine(board, marker) == \E l \in Lines : \A i \in l : board[i + 1] = marker

Full(board) == \A i \in 1..9 : board[i] # ""

GameEndSent(out, to, winner, winnerAddress, reason, board) ==
    \E k \in DOMAIN out :
        out[k] = Emit(to, "gameEnd",
                      [winner |-> winner, winnerAddress |-> winnerAddress,
                       reason |-> reason, finalBoard |-> board])

\* the match m after a step: COMPLETED with this result for reason NORMAL and
\* this board, and gameEnd with them sent to each connected participant
EndedNormally(m, result, winnerAddress, board) ==
    LET before == MatchGet(m)
        after == MatchGetIn(activeMatches', m)
    IN  /\ MatchIndexIn(activeMatches', m) # 0
        /\ after.status = "COMPLETED"
        /\ ~after.gameActive
        /\ after.result = result
        /\ after.endReason = "NORMAL"
        /\ after.board = board
        /\ \A p \in {before.player1SocketId, before.player2SocketId}
                        \cap playerSessions :
               GameEndSent(outbox', p, result, winnerAddress, "NORMAL", board)

\* C11: an accepted move of marker X or O after which a line holds three of
\* that marker completes the match in the same step: result the marker, reason
\* NORMAL, gameEnd with the final board and the winner address (player1 for X,
\* player2 for O) to both connected participants; an accepted move that fills
\* the board without such a line completes the match with result DRAW.
C11_TerminalMoveEndsGame ==
    [][\A m \in MatchIds, r \in BoardRows, c \in BoardCols :
          MoveAccepted(activeMatches, m, r * 3 + c) =>
              \A y \in Markers :
                  LET b == [MatchGet(m).board EXCEPT ![r * 3 + c + 1] = y]
                  IN  (HasLine(b, y) \/ Full(b)) =>
                          \A s \in SocketIds :
                              MakeMove(s, m, r, c, y) =>
                                  IF HasLine(b, y)
                                  THEN EndedNormally(m, y,
                                           IF y = "X" THEN MatchGet(m).player1
                                           ELSE MatchGet(m).player2, b)
                                  ELSE EndedNormally(m, "DRAW", NULL, b)
      ]_vars

\* C11 witness: a match that ended in a draw on a full board without a line,
\* the two gameEnd messages being the last ones sent.
C11_Witness ==
    \E i \in DOMAIN activeMatches :
        /\ activeMatches[i].status = "COMPLETED"
        /\ activeMatches[i].result = "DRAW"
        /\ Full(activeMatches[i].board)
        /\ ~HasLine(activeMatches[i].board, "X")
        /\ ~HasLine(activeMatches[i].board, "O")
        /\ Len(outbox) = 2
        /\ \A k \in DOMAIN outbox : outbox[k].event = "gameEnd"

\* the requestSettlement messages for a match among the messages of a step
SettlementRequests(out, matchId) ==
    {k \in DOMAIN out :
        out[k].event = "requestSettlement" /\ out[k].data.matchId = matchId}

\* C12: a step in which a match becomes COMPLETED by a win or a draw (reason
\* NORMAL) sends exactly one settlement request, which carries the match id
\* and the result, beside the gameEnd notifications of the same step.
C12_SettlementRequestedOnce ==
    [][\A i \in DOMAIN activeMatches :
          (StillThere(i)
              /\ activeMatches[i].status # "COMPLETED"
              /\ After(i).status = "COMPLETED"
              /\ After(i).endReason = "NORMAL") =>
                  /\ Cardinality(SettlementRequests(outbox', After(i).matchId)) = 1
                  /\ \A k \in SettlementRequests(outbox', After(i).matchId) :
                         outbox'[k].data.winner = After(i).result
      ]_vars

----------------------------------------------------------------------------
(* Properties of forfeit and disconnect (SpecMatch, SpecEnd) *)

IsParticipantSocket(match, s) ==
    match.player1SocketId = s \/ match.player2SocketId = s

GameEndEmitted(out) == \E k \in DOMAIN out : out[k].event = "gameEnd"

\* C13: when the connection of a participant of an active match drops, the
\* match becomes COMPLETED for reason DISCONNECT with the other participant as
\* result; and a disconnect of a participant of a match that is already
\* COMPLETED for reason DISCONNECT leaves its status, result and endReason as
\* they were and sends no gameEnd.
C13_DisconnectEndsOnce ==
    [][\A s \in SocketIds :
          Disconnect(s) =>
              \A i \in DOMAIN activeMatches :
                  (IsParticipantSocket(activeMatches[i], s) /\ StillThere(i)) =>
                      /\ activeMatches[i].gameActive =>
                            /\ After(i).status = "COMPLETED"
                            /\ After(i).endReason = "DISCONNECT"
                            /\ After(i).result =
                                   IF activeMatches[i].player1SocketId = s
                                   THEN activeMatches[i].player2
                                   ELSE activeMatches[i].player1
                      /\ (activeMatches[i].status = "COMPLETED"
                             /\ activeMatches[i].endReason = "DISCONNECT") =>
                            /\ After(i).status = activeMatches[i].status
                            /\ After(i).result = activeMatches[i].result
                            /\ After(i).endReason = activeMatches[i].endReason
                            /\ ~GameEndEmitted(outbox')
      ]_vars

\* the participant a forfeit by address leaves as the winner
OtherParticipant(match, address) ==
    IF address = match.player1 THEN match.player2 ELSE match.player1

ForfeitNoticeSent(out, to, winner) ==
    \E k \in DOMAIN out :
        /\ out[k].to = to
        /\ out[k].event = "gameEnd"
        /\ out[k].data.winner = winner
        /\ out[k].data.reason = "FORFEIT"

\* C14: a forfeitMatch naming a participant of an active match completes the
\* match in that step, for reason FORFEIT and with the other participant as
\* result, and sends each connected participant a gameEnd with that winner and
\* reason.
C14_ForfeitFinalizes ==
    [][\A m \in MatchIds, a \in Addresses :
          (MatchKnown(m) /\ MatchGet(m).gameActive
              /\ a \in {MatchGet(m).player1, MatchGet(m).player2}) =>
              \A s \in SocketIds :
                  ForfeitMatch(s, m, a) =>
                      LET before == MatchGet(m)
                          after == MatchGetIn(activeMatches', m)
                      IN  /\ MatchIndexIn(activeMatches', m) # 0
                          /\ after.status = "COMPLETED"
                          /\ ~after.gameActive
                          /\ after.endReason = "FORFEIT"
                          /\ after.result = OtherParticipant(before, a)
                          /\ \A p \in {before.player1SocketId, before.player2SocketId}
                                          \cap playerSessions :
                                 ForfeitNoticeSent(outbox', p,
                                                   OtherParticipant(before, a))
      ]_vars

\* C14 witness: a match both participants staked in and played a move of, not
\* won, is COMPLETED by forfeit, the two gameEnd messages being the last sent.
C14_Witness ==
    \E i \in DOMAIN activeMatches :
        /\ activeMatches[i].status = "COMPLETED"
        /\ activeMatches[i].endReason = "FORFEIT"
        /\ activeMatches[i].player1Staked /\ activeMatches[i].player2Staked
        /\ Len(activeMatches[i].moves) > 0
        /\ ~HasLine(activeMatches[i].board, "X")
        /\ Len(outbox) = 2
        /\ ForfeitNoticeSent(outbox, activeMatches[i].player1SocketId,
                             activeMatches[i].result)
        /\ ForfeitNoticeSent(outbox, activeMatches[i].player2SocketId,
                             activeMatches[i].result)
        /\ activeMatches[i].player1SocketId # activeMatches[i].player2SocketId

\* C15: after the disconnect of a connection has been handled, no match that
\* has it as player1SocketId or player2SocketId is active.
C15_DisconnectEndsEveryMatch ==
    [][\A s \in SocketIds :
          Disconnect(s) =>
              \A i \in DOMAIN activeMatches' :
                  IsParticipantSocket(activeMatches'[i], s) =>
                      ~activeMatches'[i].gameActive
      ]_vars

----------------------------------------------------------------------------
(* Properties of leaving the matchmaking pool (Spec) *)

\* C16: after the disconnect of a connection has been handled, no waiting
\* entry and no pre-stake recorded under its socket id remains.
C16_DisconnectClearsPool ==
    [][\A s \in SocketIds :
          Disconnect(s) =>
              /\ \A e \in WaitingEntries(waitingPlayers') :
                     waitingPlayers'[e[1]].players[e[2]].socketId # s
              /\ \A i \in DOMAIN preStakedPlayers' :
                     preStakedPlayers'[i].socketId # s
      ]_vars

\* the waiting pool without the entries of an address, and without the
\* buckets that this empties
WithoutAddress(waiting, address) ==
    SelectSeq([b \in DOMAIN waiting |->
                  [waiting[b] EXCEPT
                      !.players = SelectSeq(@, LAMBDA p : p.address # address)]],
              LAMBDA bucket : Len(bucket.players) > 0)

\* C17: cancelMatchmaking for an address removes the pre-stake and the waiting
\* entry of that address, deleting a bucket it empties, and leaves the other
\* pre-stakes, the other entries and buckets, the matches, the connections and
\* the timers as they were; for an address with neither it changes no state.
C17_CancelRemovesOnlyItsOwn ==
    [][\A s \in SocketIds, a \in Addresses :
          CancelMatchmaking(s, a) =>
              /\ preStakedPlayers' =
                     SelectSeq(preStakedPlayers, LAMBDA p : p.address # a)
              /\ waitingPlayers' = WithoutAddress(waitingPlayers, a)
              /\ UNCHANGED <<activeMatches, playerSessions, timers, now, sweepDue,
                             nextSocketId, nextMatchId>>
              /\ (~PreHas(a) /\ WithoutAddress(waitingPlayers, a) = waitingPlayers)
                     => UNCHANGED <<preStakedPlayers, waitingPlayers>>
      ]_vars

\* C17 witness: a cancellation has just been acknowledged while another
\* address is still waiting with its pre-stake.
C17_Witness ==
    /\ Len(outbox) = 1
    /\ outbox[1].event = "matchmakingStatus"
    /\ outbox[1].data.status = "cancelled"
    /\ Len(waitingPlayers) = 1
    /\ Len(preStakedPlayers) = 1
    /\ waitingPlayers[1].players[1].address = preStakedPlayers[1].address

----------------------------------------------------------------------------
(* Properties of the timers (Spec, SpecMatch) *)

\* the addresses whose pre-stake is older than the timeout at time t
ExpiredAddresses(pre, t) ==
    {pre[i].address : i \in {j \in DOMAIN pre : t - pre[j].timestamp > PRE_STAKE_TIMEOUT}}

WaitingAddresses(waiting) ==
    {waiting[e[1]].players[e[2]].address : e \in WaitingEntries(waiting)}

\* C18: the expiry sweep leaves no pre-stake older than the timeout and no
\* waiting entry of an address whose pre-stake was; and a findMatch that finds
\* the oldest entry of its stake expired creates no match with it.
C18_ExpiredNeverPaired ==
    /\ [][ExpirySweep =>
             /\ ExpiredAddresses(preStakedPlayers', now) = {}
             /\ WaitingAddresses(waitingPlayers')
                    \cap ExpiredAddresses(preStakedPlayers, now) = {}
         ]_vars
    /\ [][\A a \in Addresses, st \in Stakes :
             (~PreHas(a) /\ WaitingHas(st)
                 /\ Head(waitingPlayers[WaitingIndex(st)].players).address
                        \in ExpiredAddresses(preStakedPlayers, now)) =>
                 \A s \in SocketIds :
                     FindMatchEvent(s, a, st) => activeMatches' = activeMatches
         ]_vars

TimersOf(pending, matchId) == {t \in pending : t.matchId = matchId}

\* C19: a COMPLETED match leaves the table only when a timer of its own is
\* due; when a match becomes COMPLETED, the only timer pending for it is the
\* one scheduled then, 60 seconds ahead, so that it stays for that long; and
\* the lookup returns a match that is in the table and 404 for any other id.
C19_RetainedThenEvicted ==
    /\ [][\A i \in DOMAIN activeMatches :
             (activeMatches[i].status = "COMPLETED" /\ ~StillThere(i)) =>
                 \E t \in TimersOf(timers, activeMatches[i].matchId) : t.due <= now'
         ]_vars
    /\ [][\A i \in DOMAIN activeMatches :
             (StillThere(i) /\ activeMatches[i].status # "COMPLETED"
                 /\ After(i).status = "COMPLETED") =>
                 TimersOf(timers', activeMatches[i].matchId)
                     = {[matchId |-> activeMatches[i].matchId,
                         due |-> now + EVICT_DELAY]}
         ]_vars
    /\ [][\A m \in MatchIds :
             GetMatch(m) =>
                 /\ Len(outbox') = 1
                 /\ IF \E i \in DOMAIN activeMatches : activeMatches[i].matchId = m
                    THEN /\ outbox'[1].data.status = 200
                         /\ \E i \in DOMAIN activeMatches :
                                outbox'[1].data.body = activeMatches[i]
                    ELSE outbox'[1].data.status = 404
         ]_vars

----------------------------------------------------------------------------
(* Properties of the game logic functions (SpecWin) *)

\* C20: for every board of 9 cells over empty, X and O and every marker X or
\* O, checkWin returns true exactly when one of the 8 lines holds that marker
\* in its three cells.
C20_CheckWinIffLine ==
    \A k \in DOMAIN outbox :
        outbox[k].event = "checkWin" =>
            (outbox[k].data.hasWon
                <=> HasLine(outbox[k].data.board, outbox[k].data.symbol))

\* C20 witness: checkWin has returned true for a board whose only line is the
\* diagonal 2-4-6 of O.
C20_Witness ==
    /\ Len(outbox) = 1
    /\ outbox[1].event = "checkWin"
    /\ outbox[1].data.hasWon
    /\ outbox[1].data.symbol = "O"
    /\ \A l \in Lines :
           (\A i \in l : outbox[1].data.board[i + 1] = "O") <=> l = {2, 4, 6}

\* C21: for every board of 9 cells over empty, X and O, checkDraw returns true
\* exactly when all 9 cells are occupied and neither X nor O holds a line.
C21_CheckDrawIffFullNoLine ==
    \A k \in DOMAIN outbox :
        outbox[k].event = "checkDraw" =>
            (outbox[k].data.isDraw
                <=> /\ Full(outbox[k].data.board)
                    /\ ~HasLine(outbox[k].data.board, "X")
                    /\ ~HasLine(outbox[k].data.board, "O"))

----------------------------------------------------------------------------
(* Properties of the escrow (SpecEscrow) *)

\* the step is a call of fn that reverted and left both contracts as they were
RevertedCleanly(fn) ==
    /\ receipt'.fn = fn
    /\ receipt'.status = "reverted"
    /\ playGame' = playGame
    /\ gameToken' = gameToken

\* the step is a call of fn that did anything else
Effective(fn) == receipt'.fn = fn /\ ~RevertedCleanly(fn)

\* C22: a commitResult succeeds only for a match that is STAKED and leaves it
\* SETTLED; a commitResult for a SETTLED match reverts and changes no balance
\* and no match record; and the record of a SETTLED match never changes again.
C22_SettledAtMostOnce ==
    [][/\ Effective("commitResult") =>
              \A sender \in Committers, m \in Bytes32, w \in Accounts :
                  CommitResult(sender, m, w) =>
                      /\ receipt'.status = "success" =>
                             /\ playGame.matches[m].status = "STAKED"
                             /\ playGame'.matches[m].status = "SETTLED"
                      /\ playGame.matches[m].status = "SETTLED" =>
                             /\ receipt'.status = "reverted"
                             /\ gameToken'.balances = gameToken.balances
                             /\ playGame'.matches = playGame.matches
       /\ playGame'.matches # playGame.matches =>
              \A m \in Bytes32 :
                  playGame.matches[m].status = "SETTLED" =>
                      playGame'.matches[m] = playGame.matches[m]
      ]_vars

\* C22 witness: the only match of the contract is SETTLED, the winner holds
\* the payout, and a further commitResult has reverted with "match not staked".
C22_Witness ==
    /\ receipt = [fn |-> "commitResult", status |-> "reverted",
                  reason |-> "PlayGame: match not staked"]
    /\ \E m \in Bytes32 :
           /\ playGame.matches[m].status = "SETTLED"
           /\ playGame.totalPayouts = 2 * playGame.matches[m].stake
    /\ gameToken.balances[PLAY_GAME] = 0

\* C23: a commitResult that names a winner who is neither p1 nor p2 of the
\* match, address(0) included, reverts and changes neither the contract's
\* storage nor any token balance.
C23_InvalidWinnerRejected ==
    [][Effective("commitResult") =>
           \A m \in Bytes32, w \in Accounts :
               (w # playGame.matches[m].p1 /\ w # playGame.matches[m].p2) =>
                   \A sender \in Committers :
                       CommitResult(sender, m, w) =>
                           /\ receipt'.status = "reverted"
                           /\ playGame' = playGame
                           /\ gameToken' = gameToken
      ]_vars

\* C23 witness: a commitResult by the operator for a STAKED match has reverted
\* with "invalid winner", and the stakes are still in escrow.
C23_Witness ==
    /\ receipt = [fn |-> "commitResult", status |-> "reverted",
                  reason |-> "PlayGame: invalid winner"]
    /\ \E m \in Bytes32 :
           /\ playGame.matches[m].status = "STAKED"
           /\ gameToken.balances[PLAY_GAME] = 2 * playGame.matches[m].stake

\* the staked flag of an account in a match: p1Staked for player 1, p2Staked
\* for player 2
StakedFlag(matchData, account) ==
    IF account = matchData.p1 THEN matchData.p1Staked ELSE matchData.p2Staked

\* C30: a stake succeeds only for a participant of a CREATED match whose flag
\* is not set yet, sets that flag and moves one stake from the player to the
\* contract; a stake by a non-participant, by a player whose flag is set or
\* for a match that is not CREATED reverts and moves no token; the successful
\* stake leaves the match STAKED exactly when both flags are set after it; a
\* STAKED match has both flags set and a CREATED match does not.
C30_StakeOncePerPlayer ==
    [][/\ Effective("stake") =>
              \A sender \in Callers, m \in Bytes32 :
                  Stake(sender, m) =>
                      LET matchData == playGame.matches[m]
                          after == playGame'.matches[m]
                      IN  /\ receipt'.status = "success" =>
                                 /\ matchData.status = "CREATED"
                                 /\ IsParticipant(matchData, sender)
                                 /\ ~StakedFlag(matchData, sender)
                                 /\ StakedFlag(after, sender)
                                 /\ gameToken'.balances =
                                        [gameToken.balances EXCEPT
                                            ![sender] = @ - matchData.stake,
                                            ![PLAY_GAME] = @ + matchData.stake]
                                 /\ after.status = "STAKED"
                                        <=> (after.p1Staked /\ after.p2Staked)
                          /\ (\/ matchData.status # "CREATED"
                              \/ ~IsParticipant(matchData, sender)
                              \/ StakedFlag(matchData, sender)) =>
                                 /\ receipt'.status = "reverted"
                                 /\ gameToken' = gameToken
                                 /\ playGame' = playGame
       /\ \A m \in Bytes32 :
              LET after == playGame'.matches[m]
              IN  /\ after.status = "STAKED" => (after.p1Staked /\ after.p2Staked)
                  /\ after.status = "CREATED" => ~(after.p1Staked /\ after.p2Staked)
      ]_vars

\* C30 witness: player 1 of a CREATED match has staked, holds enough tokens
\* and allowance to stake again, and the second stake has reverted with
\* "player 1 already staked".
C30_Witness ==
    /\ receipt = [fn |-> "stake", status |-> "reverted",
                  reason |-> "PlayGame: player 1 already staked"]
    /\ \E m \in Bytes32 :
           LET matchData == playGame.matches[m]
           IN  /\ matchData.status = "CREATED"
               /\ matchData.p1Staked
               /\ gameToken.balances[matchData.p1] >= matchData.stake
               /\ gameToken.allowances[matchData.p1] >= matchData.stake
               /\ gameToken.balances[PLAY_GAME] = matchData.stake

----------------------------------------------------------------------------
(* Properties of the stake confirmations (SpecEnd, SpecMatch) *)

\* what a stake confirmation may change of a match
StakeState(match) ==
    [status |-> match.status, gameActive |-> match.gameActive,
     player1Staked |-> match.player1Staked, player2Staked |-> match.player2Staked,
     board |-> match.board]

\* the stake states of the matches in the table, in order
StakeStates(matches) == [i \in DOMAIN matches |-> StakeState(matches[i])]

GameStartEmitted(out) == \E k \in DOMAIN out : out[k].event = "gameStart"

\* the confirmation names an unknown match, an active match, or the player of
\* the match (player 1 for matchCreated, player 2 for playerStaked) whose
\* flag is set already
Repeated(matchId, account, first) ==
    \/ ~MatchKnown(matchId)
    \/ MatchGet(matchId).gameActive
    \/ /\ first
       /\ ToLowerCase(account) = ToLowerCase(MatchGet(matchId).player1)
       /\ MatchGet(matchId).player1Staked
    \/ /\ ~first
       /\ ToLowerCase(account) = ToLowerCase(MatchGet(matchId).player2)
       /\ MatchGet(matchId).player2Staked

\* C24: a playerStaked or matchCreated event for a participant whose staked
\* flag is set already, for an active match or for an unknown match id leaves
\* status, gameActive, the staked flags and the board of every match as they
\* were and sends no gameStart.
C24_RepeatedConfirmationIsNoOp ==
    [][\A m \in MatchIds, a \in Addresses :
           /\ Repeated(m, a, FALSE) =>
                  \A s \in SocketIds :
                      PlayerStaked(s, m, a) =>
                          /\ StakeStates(activeMatches') = StakeStates(activeMatches)
                          /\ ~GameStartEmitted(outbox')
           /\ Repeated(m, a, TRUE) =>
                  \A s \in SocketIds, b \in BlockchainIds :
                      MatchCreated(s, m, a, b) =>
                          /\ StakeStates(activeMatches') = StakeStates(activeMatches)
                          /\ ~GameStartEmitted(outbox')
      ]_vars

\* the start signals of a match: X and first for player 1, O for player 2,
\* each to the participant's connection if it is registered
StartSignals(sessions, match) ==
    EmitTo(sessions, match.player1SocketId, "gameStart",
           [matchId |-> match.matchId, symbol |-> "X", isFirst |-> TRUE])
        \o EmitTo(sessions, match.player2SocketId, "gameStart",
                  [matchId |-> match.matchId, symbol |-> "O", isFirst |-> FALSE])

GameStartSentFor(out, matchId) ==
    \E k \in DOMAIN out : out[k].event = "gameStart" /\ out[k].data.matchId = matchId

\* C25: a step sends gameStart for a match only when that match, never
\* started before (CREATED, not active), becomes active in it, with
\* currentPlayer X and an empty board; and the step in which a match becomes
\* active sends exactly the two start signals, X and first to player 1, O to
\* player 2.
C25_GameStartExactlyOnce ==
    [][\A i \in DOMAIN activeMatches :
           LET match == activeMatches[i]
           IN  /\ GameStartSentFor(outbox', match.matchId) =>
                      /\ match.status = "CREATED"
                      /\ ~match.gameActive
                      /\ StillThere(i)
                      /\ After(i).gameActive
                      /\ After(i).currentPlayer = "X"
                      /\ After(i).board = [c \in 1..9 |-> ""]
               /\ (StillThere(i) /\ ~match.gameActive /\ After(i).gameActive) =>
                      outbox' = StartSignals(playerSessions, match)
      ]_vars

----------------------------------------------------------------------------
(* Properties of the broadcasts (SpecBoard) *)

Opposite(marker) == IF marker = "X" THEN "O" ELSE "X"

\* one message of the event to each participant of the match whose connection
\* is registered, player 1 first
Broadcast(sessions, match, event, data) ==
    EmitTo(sessions, match.player1SocketId, event, data)
        \o EmitTo(sessions, match.player2SocketId, event, data)

\* C26: an accepted move that neither completes a line nor fills the board is
\* sent once to each connected participant as moveMade with its row, column
\* and marker and with nextPlayer the opposite marker; an accepted move that
\* completes a line or fills the board is sent as gameEnd with the outcome and
\* the final board instead.
C26_MoveBroadcast ==
    [][\A m \in MatchIds, r \in BoardRows, c \in BoardCols :
           MoveAccepted(activeMatches, m, r * 3 + c) =>
               \A y \in Markers, s \in SocketIds :
                   MakeMove(s, m, r, c, y) =>
                       LET b == [MatchGet(m).board EXCEPT ![r * 3 + c + 1] = y]
                       IN  IF HasLine(b, y) \/ Full(b)
                           THEN outbox' =
                                    Broadcast(playerSessions, MatchGet(m), "gameEnd",
                                        [winner |-> IF HasLine(b, y) THEN y ELSE "DRAW",
                                         winnerAddress |->
                                             IF ~HasLine(b, y) THEN NULL
                                             ELSE IF y = "X" THEN MatchGet(m).player1
                                             ELSE MatchGet(m).player2,
                                         reason |-> "NORMAL",
                                         finalBoard |-> b])
                           ELSE outbox' =
                                    Broadcast(playerSessions, MatchGet(m), "moveMade",
                                        [row |-> r, col |-> c, symbol |-> y,
                                         nextPlayer |-> Opposite(y)])
      ]_vars

----------------------------------------------------------------------------
(* Properties of the pre-stakes (SpecEnd, SpecConfirm) *)

PreStakeAddresses(pre) == {pre[i].address : i \in DOMAIN pre}

\* C27: when a match becomes active, neither of its participants has a
\* pre-stake any more.
C27_PreStakeReleasedOnStart ==
    [][\A i \in DOMAIN activeMatches :
           (StillThere(i) /\ ~activeMatches[i].gameActive /\ After(i).gameActive) =>
               /\ activeMatches[i].player1 \notin PreStakeAddresses(preStakedPlayers')
               /\ activeMatches[i].player2 \notin PreStakeAddresses(preStakedPlayers')
      ]_vars

\* C28: every pre-stake whose confirmed flag is set belongs to player 1 or
\* player 2 of a match that is in the match table.
C28_ConfirmedPreStakeHasMatch ==
    \A i \in DOMAIN preStakedPlayers :
        preStakedPlayers[i].confirmed =>
            \E j \in DOMAIN activeMatches :
                \/ activeMatches[j].player1 = preStakedPlayers[i].address
                \/ activeMatches[j].player2 = preStakedPlayers[i].address

----------------------------------------------------------------------------
(* Properties of the rejections (SpecGame) *)

\* a message to the connection that tells it of an error, with a reason
ErrorSentTo(out, to) ==
    \E k \in DOMAIN out :
        /\ out[k].to = to
        /\ \/ out[k].event = "error"
           \/ /\ out[k].event = "matchmakingStatus"
              /\ out[k].data.status = "error"
              /\ out[k].data.message # ""

\* C29: a makeMove for a match that is not active or on an occupied cell, and
\* a findMatch of an address that has a pre-stake, each send an error
\* notification to the connection they came from, which stays registered.
C29_RejectionsAreReported ==
    [][/\ \A m \in MatchIds, r \in Rows, c \in Cols :
              (MatchKnown(m) /\ ~MoveAccepted(activeMatches, m, r * 3 + c)
                  /\ (~MatchGet(m).gameActive \/ r * 3 + c \in 0..8)) =>
                  \A s \in SocketIds, y \in Symbols :
                      MakeMove(s, m, r, c, y) =>
                          /\ ErrorSentTo(outbox', s)
                          /\ s \in playerSessions'
       /\ \A a \in Addresses :
              PreHas(a) =>
                  \A s \in SocketIds, st \in PlayStakes :
                      FindMatchEvent(s, a, st) =>
                          /\ ErrorSentTo(outbox', s)
                          /\ s \in playerSessions'
      ]_vars

----------------------------------------------------------------------------
(* Properties of the payouts and refunds (SpecEscrow) *)

Paid(balances, account, amount) ==
    [balances EXCEPT ![PLAY_GAME] = @ - amount, ![account] = @ + amount]

\* C32: a refund succeeds only for a STAKED match whose startTime lies at
\* least TIMEOUT_DURATION in the past; it leaves the match REFUNDED and moves
\* exactly one stake from the contract to each of the two players; a match
\* that is SETTLED or REFUNDED never changes again.
C32_RefundOnlyStakedAfterTimeout ==
    [][/\ Effective("refund") =>
              \A sender \in Callers, m \in Bytes32 :
                  (Refund(sender, m) /\ receipt'.status = "success") =>
                      LET matchData == playGame.matches[m]
                      IN  /\ matchData.status = "STAKED"
                          /\ matchData.p1Staked /\ matchData.p2Staked
                          /\ blockTimestamp - matchData.startTime >= TIMEOUT_DURATION
                          /\ playGame'.matches[m].status = "REFUNDED"
                          /\ gameToken'.balances =
                                 Paid(Paid(gameToken.balances, matchData.p1,
                                           matchData.stake),
                                      matchData.p2, matchData.stake)
       /\ playGame'.matches # playGame.matches =>
              \A m \in Bytes32 :
                  playGame.matches[m].status \in {"SETTLED", "REFUNDED"} =>
                      playGame'.matches[m] = playGame.matches[m]
      ]_vars

\* C32 witness: a refund has succeeded for a match with a positive stake, the
\* contract holds nothing and both players hold what they bought.
C32_Witness ==
    /\ receipt = [fn |-> "refund", status |-> "success", reason |-> ""]
    /\ gameToken.balances[PLAY_GAME] = 0
    /\ \E m \in Bytes32 :
           /\ playGame.matches[m].status = "REFUNDED"
           /\ playGame.matches[m].stake > 0
           /\ gameToken.balances[playGame.matches[m].p1] = BUY_AMOUNT
           /\ gameToken.balances[playGame.matches[m].p2] = BUY_AMOUNT

----------------------------------------------------------------------------
(* Properties of the buckets and of the pairs (Spec) *)

\* C33: every bucket of the waiting pool holds exactly one entry.
C33_BucketsHoldOneEntry ==
    \A b \in DOMAIN waitingPlayers : Len(waitingPlayers[b].players) = 1

\* C33 witness: a join-intent has just been paired with the only entry of its
\* stake's bucket, after time has passed and a connection has dropped, and
\* the pool has no bucket left.
C33_Witness ==
    /\ Len(waitingPlayers) = 0
    /\ Len(activeMatches) = 1
    /\ now > 0
    /\ nextSocketId > 2
    /\ \E s \in playerSessions : StatusSent(outbox, s, "matched")

\* C34: no match pairs an address with itself.
C34_NoSelfPairing ==
    \A i \in DOMAIN activeMatches :
        activeMatches[i].player1 # activeMatches[i].player2

\* C34 witness: an address that cancelled its first join-intent has joined
\* again and has been paired with the entry of the other address.
C34_Witness ==
    /\ Len(activeMatches) = 1
    /\ Len(preStakedPlayers) = 2
    /\ preStakedPlayers[1].address = activeMatches[1].player1
    /\ preStakedPlayers[2].address = activeMatches[1].player2
    /\ preStakedPlayers[1].stake # 10
    /\ preStakedPlayers[1].timestamp < preStakedPlayers[2].timestamp
    /\ \E s \in playerSessions : StatusSent(outbox, s, "matched")

----------------------------------------------------------------------------
(* Properties of the eviction of matches (SpecEvict) *)

\* C35: a match that leaves the match table is COMPLETED and not active at
\* the moment it is removed.
C35_OnlyCompletedEvicted ==
    [][activeMatches' # activeMatches =>
           \A i \in DOMAIN activeMatches :
               ~StillThere(i) =>
                   /\ activeMatches[i].status = "COMPLETED"
                   /\ ~activeMatches[i].gameActive
      ]_vars

----------------------------------------------------------------------------
(* Properties of the final boards (SpecBoard) *)

\* C36: a match that is COMPLETED with result DRAW has a full board without
\* a complete line of X and without a complete line of O.
C36_DrawBoardHasNoLine ==
    \A i \in DOMAIN activeMatches :
        (activeMatches[i].status = "COMPLETED" /\ activeMatches[i].result = "DRAW") =>
            /\ Full(activeMatches[i].board)
            /\ ~HasLine(activeMatches[i].board, "X")
            /\ ~HasLine(activeMatches[i].board, "O")

----------------------------------------------------------------------------
(* Properties of forfeits and of the gameEnd notifications (SpecEnd) *)

\* C37: a forfeitMatch that names an address that is not a participant of the
\* match, or that is sent for a match that is not active, leaves the status,
\* result and endReason of the match unchanged.
C37_ForfeitOnlyByParticipantOfActive ==
    [][\A m \in MatchIds, a \in Addresses :
          (/\ MatchKnown(m)
           /\ ~(/\ MatchGet(m).gameActive
                /\ a \in {MatchGet(m).player1, MatchGet(m).player2})) =>
              \A s \in SocketIds :
                  ForfeitMatch(s, m, a) =>
                      LET before == MatchGet(m)
                          after == MatchGetIn(activeMatches', m)
                      IN  /\ after.status = before.status
                          /\ after.result = before.result
                          /\ after.endReason = before.endReason
      ]_vars

\* C38: in every gameEnd notification winnerAddress is null exactly when the
\* outcome is a draw, and is otherwise the address of a participant.
C38_WinnerAddressNamesWinner ==
    \A k \in DOMAIN outbox :
        outbox[k].event = "gameEnd" =>
            IF outbox[k].data.winner = "DRAW"
            THEN outbox[k].data.winnerAddress = NULL
            ELSE outbox[k].data.winnerAddress \in Addresses

----------------------------------------------------------------------------
(* Properties of the escrowed funds (SpecEscrow) *)

\* the number of staked flags of a match that are set
FlagsSet(matchData) ==
    (IF matchData.p1Staked THEN 1 ELSE 0) + (IF matchData.p2Staked THEN 1 ELSE 0)

\* what the contract owes to the players of the matches in ids that are
\* CREATED or STAKED
RECURSIVE Escrowed(_, _)
Escrowed(matches, ids) ==
    IF ids = {} THEN 0
    ELSE LET m == CHOOSE x \in ids : TRUE
         IN  (IF matches[m].status \in {"CREATED", "STAKED"}
              THEN matches[m].stake * FlagsSet(matches[m]) ELSE 0)
             + Escrowed(matches, ids \ {m})

\* C39: without emergencyWithdrawGT and refundPreStake, the contract's token
\* balance is at least the stakes deposited for the matches that are CREATED
\* or STAKED, and no commitResult or refund reverts for lack of tokens.
C39_EscrowCovered ==
    /\ gameToken.balances[PLAY_GAME] >= Escrowed(playGame.matches, Bytes32)
    /\ receipt.fn \in {"commitResult", "refund"} =>
           receipt.reason # "ERC20InsufficientBalance"

\* C39 witness: both players have staked a positive amount, the contract
\* holds exactly the two stakes, and a refund has just reverted, for another
\* reason than missing tokens.
C39_Witness ==
    /\ receipt.fn = "refund"
    /\ receipt.status = "reverted"
    /\ \E m \in Bytes32 :
           /\ playGame.matches[m].status = "STAKED"
           /\ playGame.matches[m].stake > 0
           /\ gameToken.balances[PLAY_GAME] = 2 * playGame.matches[m].stake

\* the contract holds a stake of a player for match m
HoldsStake(m) ==
    /\ playGame.matches[m].status \in {"CREATED", "STAKED"}
    /\ playGame.matches[m].stake > 0
    /\ FlagsSet(playGame.matches[m]) > 0

\* a commitResult or a refund for match m would succeed
ReleaseCallSucceeds(m) ==
    \/ \E w \in Accounts : commitResult(DEPLOYER, m, w).status = "success"
    \/ \E sender \in Callers : refund(sender, m).status = "success"

\* C40: whenever the contract holds a player's stake for a match, a call of
\* commitResult or refund releases it, also when only one of the two players
\* has staked: some such call would succeed, or the match is STAKED and a
\* refund succeeds once TIMEOUT_DURATION has passed.
C40_StakeReleasable ==
    \A m \in Bytes32 :
        HoldsStake(m) =>
            \/ ReleaseCallSucceeds(m)
            \/ playGame.matches[m].status = "STAKED"

====
